---- MODULE Spec2Model ----
(***************************************************************************)
(* Model of the DEM solver of Lethe (source/dem/dem.cc): the constructor   *)
(* of DEMSolver and the timestep loop of DEMSolver::solve().  One action   *)
(* per statement of the loop; pc is the position inside solve().           *)
(* cell_weight, reinitialize_force and a repartition with its callbacks    *)
(* are also called on their own, on arguments drawn from bounded sets.     *)
(***************************************************************************)
EXTENDS Integers, Naturals, Sequences, FiniteSets, TLC

(* ------------------------------ bounds --------------------------------- *)
MaxFreq  == 3      \* frequencies are drawn from 0..MaxFreq
MaxSteps == 6      \* integrate() returns true at most MaxSteps times
NPairs   == 1      \* particle pairs that may come into contact
MaxAcc   == 1      \* cap of the tangential displacement accumulator
MaxParticles == 2  \* particles present when repartition() is called on its own
MaxDomains   == 2  \* domains (processes) the cells are distributed over
MaxCells     == 2  \* cells of the triangulation when repartition() is called
HandlerSize  == 1  \* particles in the handler given to reinitialize_force
MaxIterations == 2  \* the largest nonLinearSolver.maxIterations of a call

\* dem.cc:132
particle_weight == 10000

Dims == {2, 3}     \* template class DEMSolver<2>; DEMSolver<3>

VARIABLES
  pc,                            \* position in the constructor / solve()
  dim,                           \* template parameter
  contact_detection_frequency,   \* parameters.model_parameters...
  repartition_frequency,
  insertion_frequency,
  dense,                         \* whether particles can come near each other / the walls
  step_number,                   \* simulation_control->get_step_number()
  particles_were_inserted,       \* local of the loop body
  triangulation,                 \* current decomposition (partition epoch)
  cells_neighbor_list,           \* cells_local/ghost_neighbor_list
  boundary_cells,                \* boundary_cells_with_faces/lines/points/information
  local_contact_pair_candidates,
  ghost_contact_pair_candidates,
  pw_contact_candidates,
  particle_point_contact_candidates,
  particle_line_contact_candidates,
  local_adjacent_particles,      \* pair -> tangential accumulator
  ghost_adjacent_particles,
  pw_pairs_in_contact,
  particle_points_in_contact,
  particle_lines_in_contact,
  stepLog,                       \* operations executed in the current timestep, in order
  runLog,                        \* step numbers in which the insertion strategy ran
  methods,                       \* the four method selections of the parameters
  objects,                       \* insertion/integrator/pp/pw strategy handles
  counters,                      \* calls made so far during solve()
  obs,                           \* what the searches of the current step saw
  call,                          \* a function called on its own: name and arguments
  ret,                           \* what that call returned
  gls                            \* the GLSNavierStokesSolver the call runs on

config == <<dim, contact_detection_frequency, repartition_frequency,
            insertion_frequency, dense, methods>>
units  == <<call, ret, gls>>
lists  == <<triangulation, cells_neighbor_list, boundary_cells>>
candidates == <<local_contact_pair_candidates, ghost_contact_pair_candidates,
                pw_contact_candidates, particle_point_contact_candidates,
                particle_line_contact_candidates>>
contacts == <<local_adjacent_particles, ghost_adjacent_particles,
              pw_pairs_in_contact, particle_points_in_contact,
              particle_lines_in_contact>>

vars == <<pc, config, step_number, particles_were_inserted, lists,
          candidates, contacts, stepLog, runLog, objects, counters, obs, units>>

(* ------------------------------ helpers -------------------------------- *)
\* std::fmod on the non-negative values the solver passes: the remainder, or
\* NaN when the divisor is 0.  NaN compares unequal to every number.
NaN == -1
\* a remainder that is 0 when the divisor is 0
FmodZero(x, y) == IF y = 0 THEN 0 ELSE x % y
Fmod(x, y) == IF y = 0 THEN NaN ELSE x % y

\* solve() with the particle-particle force computed before the fine search
ProgramForceBeforeFine ==
  << "find_cell_neighbors", "set_types", "integrate",
     "repartition", "clear_lists", "rebuild_lists",
     "reinitialize_force", "insert_particles", "sort", "exchange_ghost",
     "pp_broad", "pw_broad", "localize", "locate", "pp_force", "pp_fine",
     "pw_fine", "pw_force", "integrator", "output" >>

\* solve() with the ghost exchange after the particle-particle force
ProgramGhostAfterForce ==
  << "find_cell_neighbors", "set_types", "integrate",
     "repartition", "clear_lists", "rebuild_lists",
     "reinitialize_force", "insert_particles", "sort",
     "pp_broad", "pw_broad", "localize", "locate", "pp_fine", "pp_force",
     "exchange_ghost", "pw_fine", "pw_force", "integrator", "output" >>

\* solve() with the sort after the particle-particle broad search
ProgramSortAfterBroad ==
  << "find_cell_neighbors", "set_types", "integrate",
     "repartition", "clear_lists", "rebuild_lists",
     "reinitialize_force", "insert_particles", "exchange_ghost",
     "pp_broad", "sort", "pw_broad", "localize", "locate", "pp_fine",
     "pp_force", "pw_fine", "pw_force", "integrator", "output" >>

\* solve() with the particle-wall force before the particle-wall fine search
ProgramWallForceBeforeFine ==
  << "find_cell_neighbors", "set_types", "integrate",
     "repartition", "clear_lists", "rebuild_lists",
     "reinitialize_force", "insert_particles", "sort", "exchange_ghost",
     "pp_broad", "pw_broad", "localize", "locate", "pp_fine", "pp_force",
     "pw_force", "pw_fine", "integrator", "output" >>

\* the statements of solve(), in source order
Program ==
  << "find_cell_neighbors", "set_types", "integrate",
     "repartition", "clear_lists", "rebuild_lists",
     "reinitialize_force", "insert_particles", "sort", "exchange_ghost",
     "pp_broad", "pw_broad", "localize", "locate", "pp_fine", "pp_force",
     "pw_fine", "pw_force", "integrator", "output" >>

IndexOf(label) == CHOOSE i \in 1..Len(Program) : Program[i] = label
\* the statement that follows label in the text of solve()
Following(label) ==
  IF IndexOf(label) = Len(Program) THEN "integrate"
  ELSE Program[IndexOf(label) + 1]

\* the universes of contact pairs; empty in a dilute run
PPairs == IF dense THEN 1..NPairs ELSE {}
Walls  == IF dense THEN {"w"} ELSE {}
Points == IF dense THEN {"pt"} ELSE {}
Lines  == IF dense THEN {"ln"} ELSE {}

NoContacts == [p \in {} |-> 0]
Min(a, b) == IF a < b THEN a ELSE b

\* the cadence test with its arguments exchanged
CadenceCheckSwapped ==
  Fmod(contact_detection_frequency, repartition_frequency) # 0

\* the cadence test left out
CadenceCheckOmitted == FALSE

\* dem.cc:61  the cadence test of the constructor
CadenceCheckFails ==
  Fmod(repartition_frequency, contact_detection_frequency) # 0

\* dem.cc:508  the repartition test
RepartitionDue == Fmod(step_number, repartition_frequency) = 0

\* dem.cc:203  the insertion test
InsertionDue == Fmod(step_number, insertion_frequency) = 1

\* the detection test without the insertion flag
DetectionDueCadenceOnly ==
  Fmod(step_number, contact_detection_frequency) = 0

\* the detection test with the remainder of the insertion test
DetectionDueOffByOne ==
  particles_were_inserted \/ Fmod(step_number, contact_detection_frequency) = 1

\* dem.cc:542  the test that guards sort, broad search, localize and fine search
DetectionDue ==
  particles_were_inserted \/ Fmod(step_number, contact_detection_frequency) = 0

Log(events) == stepLog' = stepLog \o events
Goto(label) == pc' = label

(* ------------------- functions called on their own --------------------- *)
Limb == 2^16
\* the product of two unsigned int as the compiler computes it, in 16-bit
\* limbs: lo and hi are the 32 bits of the result, carry is what does not fit
Product(n, w) ==
  LET a1 == n \div Limb
      a0 == n % Limb
      p0 == a0 * w
      p1 == a1 * w + (p0 \div Limb)
  IN  [lo |-> p0 % Limb, hi |-> p1 % Limb, carry |-> p1 \div Limb]
\* unsigned int multiplication: the low 32 bits of the product
unsigned_mul(n, w) == [lo |-> Product(n, w).lo, hi |-> Product(n, w).hi]
Zero == [lo |-> 0, hi |-> 0]
Less(u, v) == u.hi < v.hi \/ (u.hi = v.hi /\ u.lo < v.lo)

CellStatuses == {"CELL_PERSIST", "CELL_REFINE", "CELL_COARSEN", "CELL_INVALID"}
\* particle counts of a cell, around the largest count whose weight fits
ParticleCounts == {0, 1, 2, 429496, 429497}
ChildCounts == {0, 1, 429496}
\* GeometryInfo<dim>::max_children_per_cell
max_children_per_cell == 2^dim
ActiveCells ==
  [is_locally_owned : BOOLEAN, n_particles : ParticleCounts,
   children : {<< >>}]
ParentCells ==
  [is_locally_owned : BOOLEAN, n_particles : {0},
   children : [1..max_children_per_cell -> ChildCounts]]
CellWeightCalls ==
  [fn : {"cell_weight"}, cell : ActiveCells,
   status : CellStatuses \ {"CELL_COARSEN"}]
  \cup [fn : {"cell_weight"}, cell : ParentCells, status : {"CELL_COARSEN"}]

RECURSIVE SumChildren(_, _)
\* dem.cc:147-153  the loop over the children (the counts drawn here are far
\* from the wraparound of the unsigned sum)
SumChildren(children, child_index) ==
  IF child_index > Len(children) THEN 0
  ELSE children[child_index] + SumChildren(children, child_index + 1)

\* a call that returned value / that ended in an exception
Returns(value) == [value |-> value, raised |-> "none"]
Raises(exception) == [value |-> Zero, raised |-> exception]

\* dem.cc:112-160  the outcomes of cell_weight: Assert(false) aborts in a
\* debug build and is compiled out in a release build, which returns 0
cell_weight(cell, status) ==
  IF ~cell.is_locally_owned THEN {Returns(Zero)}
  ELSE IF status \in {"CELL_PERSIST", "CELL_REFINE"}
    THEN {Returns(unsigned_mul(cell.n_particles, particle_weight))}
  ELSE IF status = "CELL_COARSEN"
    THEN {Returns(unsigned_mul(SumChildren(cell.children, 1), particle_weight))}
  ELSE {Raises("ExcInternalError"), Returns(Zero)}

\* the properties of a particle: force, torque, and one other property
Components == {0, 1}
Properties ==
  [force_x : Components, force_y : Components, force_z : Components,
   M_x : Components, M_y : Components, M_z : Components, v_x : Components]
ReinitializeForceCalls ==
  [fn : {"reinitialize_force"},
   particle_handler : [1..HandlerSize -> Properties]]

\* the reset zeroing every property of the particle
reinitialize_force_all_properties(particle_handler) ==
  [i \in DOMAIN particle_handler |->
     [k \in DOMAIN particle_handler[i] |-> 0]]

\* dem.cc:293-318
reinitialize_force(particle_handler) ==
  [i \in DOMAIN particle_handler |->
     LET xy == [particle_handler[i] EXCEPT !.force_x = 0, !.force_y = 0,
                                           !.M_x = 0, !.M_y = 0]
     IN  IF dim = 3 THEN [xy EXCEPT !.force_z = 0, !.M_z = 0] ELSE xy]

Particles == 1..MaxParticles
Domains   == 1..MaxDomains
Cells     == 1..MaxCells
\* the cell of every particle, and the owner of every cell before and after
RepartitionCalls ==
  [fn : {"repartition"}, location : [Particles -> Cells],
   owner : [Cells -> Domains], new_owner : [Cells -> Domains]]

\* the slots connected the other way round
signal_connections_swapped ==
  [cell_weight |-> "cell_weight",
   pre_distributed_repartition |-> "register_load_callback_function",
   post_distributed_repartition |-> "register_store_callback_function"]

\* dem.cc:83-96
signal_connections ==
  [cell_weight |-> "cell_weight",
   pre_distributed_repartition |-> "register_store_callback_function",
   post_distributed_repartition |-> "register_load_callback_function"]

\* the particles held by the particle handler of domain d
ParticlesOf(location, owner, d) ==
  {p \in DOMAIN location : owner[location[p]] = d}

\* parallel::distributed::Triangulation::repartition() with a ParticleHandler:
\* the slot of pre_distributed_repartition attaches the particles of every
\* cell to the cell when it is the store callback, the cells go to their new
\* owners with what is attached, and the slot of post_distributed_repartition
\* refills every handler from the cells it now owns when it is the load
\* callback; a handler that is not refilled holds what it held
triangulation_repartition(signals, location, owner, new_owner) ==
  LET stored ==
        [c \in Cells |->
           IF signals.pre_distributed_repartition =
                "register_store_callback_function"
             THEN {p \in DOMAIN location : location[p] = c} ELSE {}]
      loaded(d) == UNION {stored[c] : c \in {x \in Cells : new_owner[x] = d}}
  IN  [d \in Domains |->
         IF signals.post_distributed_repartition =
              "register_load_callback_function"
           THEN loaded(d) ELSE ParticlesOf(location, owner, d)]

(* ------------------------------ Init ----------------------------------- *)
\* the configurations of a dense run: detection every step or every 2nd step,
\* repartition every 2nd step, insertion every 3rd step
DenseConfig ==
  /\ contact_detection_frequency \in {1, 2}
  /\ repartition_frequency = 2
  /\ insertion_frequency = 3

\* the method selections: the two variants of each category, or a value
\* that names none of them
Selections ==
  [insertion   : {"uniform", "non_uniform", "invalid"},
   integration : {"velocity_verlet", "explicit_euler", "invalid"},
   pp_force    : {"pp_linear", "pp_nonlinear", "invalid"},
   pw_force    : {"pw_linear", "pw_nonlinear", "invalid"}]

DefaultSelection ==
  [insertion |-> "uniform", integration |-> "velocity_verlet",
   pp_force |-> "pp_linear", pw_force |-> "pw_linear"]

\* the configuration of the runs that vary the method selections
SelectionConfig ==
  /\ ~dense
  /\ contact_detection_frequency = 1
  /\ repartition_frequency = 2
  /\ insertion_frequency = 2

\* no slot connected to the signals of the triangulation
NoSignals ==
  [cell_weight |-> "none", pre_distributed_repartition |-> "none",
   post_distributed_repartition |-> "none"]

\* the four strategy handles
Handles == {"insertion", "integration", "pp_force", "pw_force"}

\* null handles that have never been written, and unconnected signals
NoObjects ==
  [insertion |-> "null", integration |-> "null",
   pp_force |-> "null", pw_force |-> "null", signals |-> NoSignals,
   writes |-> [h \in Handles |-> 0]]
NoCounters == [integrations |-> 0, finish_simulation |-> 0, stopped |-> FALSE]

(* ----------------------- GLSNavierStokesSolver ------------------------- *)
\* residual norms in tenths (10 is the 1.0 of glsNS.h:1371-1372); NaN is a
\* norm like any other
Residuals == {NaN, 0, 8, 10}
\* nsparam.nonLinearSolver.tolerance in tenths, and .maxIterations
Tolerances == {1}
IterationLimits == 0..MaxIterations
\* nsparam.physicalProperties.viscosity, nsparam.initialCondition->viscosity
Viscosities == {1, 2}
\* Parameters::SimulationControl::TimeSteppingMethod
TimeSteppingMethods == {"steady", "bdf1"}
\* Parameters::InitialConditionType
InitialConditionTypes == {"none", "L2projection", "viscous", "nodal"}

\* comparisons of doubles: false whenever an operand is NaN
Greater(a, b) == a # NaN /\ b # NaN /\ a > b
Lesser(a, b)  == a # NaN /\ b # NaN /\ a < b

\* a solution vector, named by the statement that produced it
Point(from, outer, alpha_den) ==
  [from |-> from, outer |-> outer, alpha_den |-> alpha_den]

NewtonIterationCalls ==
  [fn : {"newton_iteration"}, is_initial_step : BOOLEAN,
   tolerance : Tolerances, maxIterations : IterationLimits,
   viscosity : {1}, ic_viscosity : {1}, method : {"steady"}]
SetInitialConditionCalls ==
  [fn : {"set_initial_condition"},
   initial_condition_type : InitialConditionTypes, restart : BOOLEAN,
   tolerance : Tolerances, maxIterations : IterationLimits,
   viscosity : Viscosities, ic_viscosity : Viscosities,
   method : TimeSteppingMethods]

NoGLS == [constructed |-> FALSE]
\* the solver object the call c runs on
Constructed(c) ==
  [constructed |-> TRUE,
   viscosity |-> c.viscosity, method |-> c.method,
   present_solution |-> Point("constructor", 0, 0),
   evaluation_point |-> Point("constructor", 0, 0),
   outer_iteration |-> 0, alpha_den |-> 1,
   current_res |-> 0, last_res |-> 0,
   evaluated |-> << >>,
   saved_viscosity |-> 0, previousControl |-> "none",
   log |-> << >>]

\* a step-length search that goes on down to 1e-4
alpha_above_floor_at_a_tenth(alpha_den) == alpha_den < 10000
\* glsNS.h:1389  alpha > 1e-3, for alpha = 1 / alpha_den
alpha_above_floor(alpha_den) == alpha_den < 1000

\* glsNS.h:1399  current_res < 0.9 * last_res || last_res < tolerance
search_ends(current_res, last_res, tolerance) ==
  \/ current_res # NaN /\ last_res # NaN /\ 10 * current_res < 9 * last_res
  \/ Lesser(last_res, tolerance)

\* the end of the viscous branch that leaves the initial-condition viscosity
set_initial_condition_viscous_end_no_restore(g) ==
  [g EXCEPT !.method = g.previousControl,
            !.log = @ \o <<"finish_time_step", "postprocess">>]
\* glsNS.h:780-784
set_initial_condition_viscous_end(g) ==
  [g EXCEPT !.method = g.previousControl,
            !.log = @ \o <<"finish_time_step", "postprocess">>,
            !.viscosity = g.saved_viscosity]

\* what the current detection step has observed, kept from localize_contacts
\* to the force computation: the pairs that geometrically overlap and the
\* contact objects as they were before localize_contacts; and the particle
\* pairs whose contact object has been deleted and that have not been in
\* contact again since
NoObs  == [pp_overlap |-> {}, pw_overlap |-> {},
           pp_before |-> NoContacts, pw_before |-> NoContacts, lost |-> {},
           is_output_iteration |-> "not called"]
NoCall == [fn |-> "none"]
NoRet  == [fn |-> "none"]

\* the state of the solver object before its constructor and solve() run
SolverInit ==
  /\ pc = "new"
  /\ contact_detection_frequency \in 0..MaxFreq
  /\ repartition_frequency \in 0..MaxFreq
  /\ insertion_frequency \in 0..MaxFreq
  /\ dense \in BOOLEAN
  /\ dense => DenseConfig
  /\ methods \in Selections
  /\ (methods # DefaultSelection) => SelectionConfig
  /\ call = NoCall
  /\ gls = NoGLS

\* a function of the solver called on its own, on a constructed solver
UnitInit ==
  /\ pc = "call"
  /\ contact_detection_frequency = 1
  /\ repartition_frequency = 1
  /\ insertion_frequency = 1
  /\ dense = FALSE
  /\ methods = DefaultSelection
  /\ call \in CellWeightCalls \cup ReinitializeForceCalls \cup RepartitionCalls
  /\ gls = NoGLS

\* a function of GLSNavierStokesSolver called on a constructed solver
GLSInit ==
  /\ pc = "call"
  /\ dim = 2
  /\ contact_detection_frequency = 1
  /\ repartition_frequency = 1
  /\ insertion_frequency = 1
  /\ dense = FALSE
  /\ methods = DefaultSelection
  /\ call \in NewtonIterationCalls \cup SetInitialConditionCalls
  /\ gls = Constructed(call)

Init ==
  /\ dim \in Dims
  /\ SolverInit \/ UnitInit \/ GLSInit
  /\ ret = NoRet
  /\ objects = NoObjects
  /\ counters = NoCounters
  /\ obs = NoObs
  /\ step_number = 0
  /\ particles_were_inserted = FALSE
  /\ triangulation = 0
  /\ cells_neighbor_list = {}
  /\ boundary_cells = {}
  /\ local_contact_pair_candidates = {}
  /\ ghost_contact_pair_candidates = {}
  /\ pw_contact_candidates = {}
  /\ particle_point_contact_candidates = {}
  /\ particle_line_contact_candidates = {}
  /\ local_adjacent_particles = NoContacts
  /\ ghost_adjacent_particles = NoContacts
  /\ pw_pairs_in_contact = NoContacts
  /\ particle_points_in_contact = {}
  /\ particle_lines_in_contact = {}
  /\ stepLog = << >>
  /\ runLog = {}

(* ------------------- collaborators outside dem.cc ---------------------- *)
\* SimulationControl::integrate(): advances the step number and returns true,
\* or returns false at the end of the step/time budget
simulation_control_integrate(more) ==
  IF more THEN step_number + 1 ELSE step_number

\* FindCellNeighbors::find_cell_neighbors and FindBoundaryCellsInformation:
\* append to their output containers what they compute from the triangulation
find_cell_neighbors(tria, list) == list \cup {tria}
find_boundary_cells_information(tria, cells) == cells \cup {tria}

\* broad search produces zero false negatives: every pair that geometrically
\* overlaps was among the candidates it returned, which after
\* localize_contacts are the remaining candidates and the pairs of the
\* contact objects
broad_search_overlaps(cand, adjacent) == SUBSET (cand \cup DOMAIN adjacent)

\* the particle-particle contact objects, local and ghost
PPContacts ==
  [p \in DOMAIN local_adjacent_particles \cup DOMAIN ghost_adjacent_particles |->
     IF p \in DOMAIN local_adjacent_particles
       THEN local_adjacent_particles[p] ELSE ghost_adjacent_particles[p]]

\* contact objects of `adjacent` whose pair is among `keep`
Restrict(adjacent, keep) ==
  [p \in (DOMAIN adjacent) \cap keep |-> adjacent[p]]

\* localize_contacts: a contact object whose pair is no longer a candidate is
\* dropped, one whose pair moved to the other candidate list moves to the
\* other collection (keeping its state), and pairs that already have a
\* contact object are taken out of the candidate lists
localize_adjacent(own, other, ownCand, otherCand) ==
  [p \in ((DOMAIN own) \cap ownCand) \cup ((DOMAIN other) \cap ownCand) |->
     IF p \in DOMAIN own THEN own[p] ELSE other[p]]

\* fine search: candidates in `overlapping` get a new contact object with a
\* zero tangential accumulator, existing objects are kept while their pair
\* overlaps and deleted otherwise
fine_search(adjacent, cand, overlapping) ==
  [p \in ((DOMAIN adjacent) \cup cand) \cap overlapping |->
     IF p \in DOMAIN adjacent THEN adjacent[p] ELSE 0]

\* contact force model: integrates the tangential displacement of every
\* contact object
calculate_contact_force(adjacent) ==
  [p \in DOMAIN adjacent |-> Min(adjacent[p] + 1, MaxAcc)]

(* ---------------------------- constructor ------------------------------ *)
\* dem.cc:29-97
Constructor ==
  /\ pc = "new"
  /\ IF CadenceCheckFails
       THEN /\ Goto("runtime_error")
            /\ UNCHANGED objects
       ELSE /\ objects' = [objects EXCEPT !.signals = signal_connections]
            /\ Goto("constructed")
  /\ UNCHANGED <<config, units, counters, obs, step_number, particles_were_inserted, lists,
                 candidates, contacts, stepLog, runLog>>

(* ------------------------------- solve --------------------------------- *)
\* dem.cc:461-495  solve() up to and including the neighbour search
FindCellNeighborsStep ==
  /\ pc = "constructed"
  /\ cells_neighbor_list' = find_cell_neighbors(triangulation, cells_neighbor_list)
  /\ boundary_cells' = find_boundary_cells_information(triangulation, boundary_cells)
  /\ Goto("set_types")
  /\ UNCHANGED <<config, units, objects, counters, obs, step_number, particles_were_inserted, triangulation,
                 candidates, contacts, stepLog, runLog>>

\* dem.cc:320-339
set_insertion_type(m) ==
  IF m = "uniform" THEN "UniformInsertion"
  ELSE IF m = "non_uniform" THEN "NonUniformInsertion"
  ELSE "throw"

\* the integrator selection with the two variants exchanged
set_integrator_type_exchanged(m) ==
  IF m = "velocity_verlet" THEN "ExplicitEulerIntegrator"
  ELSE IF m = "explicit_euler" THEN "VelocityVerletIntegrator"
  ELSE "throw"

\* dem.cc:341-362
set_integrator_type(m) ==
  IF m = "velocity_verlet" THEN "VelocityVerletIntegrator"
  ELSE IF m = "explicit_euler" THEN "ExplicitEulerIntegrator"
  ELSE "throw"

\* dem.cc:364-384
set_pp_contact_force(m) ==
  IF m = "pp_linear" THEN "PPLinearForce"
  ELSE IF m = "pp_nonlinear" THEN "PPNonLinearForce"
  ELSE "throw"

\* the particle-wall selection falling back to the linear model
set_pw_contact_force_default(m) ==
  IF m = "pw_nonlinear" THEN "PWNonLinearForce" ELSE "PWLinearForce"

\* dem.cc:386-406
set_pw_contact_force(m) ==
  IF m = "pw_linear" THEN "PWLinearForce"
  ELSE IF m = "pw_nonlinear" THEN "PWNonLinearForce"
  ELSE "throw"

\* one line of dem.cc:498-501 after its set_* function returned `made`: the
\* function has written the handle (dem.cc:327-332, 349-355, 371-377,
\* 393-399) and the assignment of its return value writes it again
Assigned(o, h, made) ==
  LET inside == [o EXCEPT ![h] = made, !.writes[h] = @ + 1]
  IN  [inside EXCEPT ![h] = made, !.writes[h] = @ + 1]

\* dem.cc:497-501  the four assignments run in order; the first selection that
\* is not recognised throws out of solve() and leaves the later handles unset
SetTypes ==
  /\ pc = "set_types"
  /\ LET ins == set_insertion_type(methods.insertion)
         int == set_integrator_type(methods.integration)
         pp  == set_pp_contact_force(methods.pp_force)
         pw  == set_pw_contact_force(methods.pw_force)
         o1  == Assigned(objects, "insertion", ins)
         o2  == Assigned(o1, "integration", int)
         o3  == Assigned(o2, "pp_force", pp)
         o4  == Assigned(o3, "pw_force", pw)
     IN  IF ins = "throw" THEN
           /\ objects' = objects
           /\ Goto("exception")
         ELSE IF int = "throw" THEN
           /\ objects' = o1
           /\ Goto("exception")
         ELSE IF pp = "throw" THEN
           /\ objects' = o2
           /\ Goto("exception")
         ELSE IF pw = "throw" THEN
           /\ objects' = o3
           /\ Goto("exception")
         ELSE
           /\ objects' = o4
           /\ Goto(Following("set_types"))
  /\ UNCHANGED <<config, units, counters, obs, step_number,
                 particles_were_inserted, lists, candidates, contacts,
                 stepLog, runLog>>

\* dem.cc:504-506  the loop test
Integrate ==
  /\ pc = "integrate"
  /\ \E more \in BOOLEAN :
       /\ more => step_number < MaxSteps
       /\ step_number' = simulation_control_integrate(more)
       /\ IF more
            THEN /\ stepLog' = << >>
                 /\ particles_were_inserted' = FALSE
                 /\ obs' = [NoObs EXCEPT !.lost = obs.lost]
                 /\ Goto(Following("integrate"))
            ELSE /\ Goto("finish_simulation")
                 /\ UNCHANGED <<stepLog, particles_were_inserted, obs>>
       /\ counters' = [counters EXCEPT !.stopped = ~more]
  /\ UNCHANGED <<config, units, objects, lists, candidates, contacts, runLog>>

\* dem.cc:508-512
Repartition ==
  /\ pc = "repartition"
  /\ IF RepartitionDue
       THEN /\ triangulation' = triangulation + 1
            /\ Log(<<objects.signals.pre_distributed_repartition,
                      objects.signals.cell_weight, "repartition",
                      objects.signals.post_distributed_repartition>>)
            /\ Goto(Following("repartition"))
       ELSE /\ UNCHANGED <<triangulation, stepLog>>
            /\ Goto("reinitialize_force")
  /\ UNCHANGED <<config, units, objects, counters, obs, step_number, particles_were_inserted,
                 cells_neighbor_list, boundary_cells, candidates, contacts, runLog>>

\* the repartition block emptying the contact collections as well
ClearListsWithContacts ==
  /\ pc = "clear_lists"
  /\ cells_neighbor_list' = {}
  /\ boundary_cells' = {}
  /\ local_adjacent_particles' = NoContacts
  /\ ghost_adjacent_particles' = NoContacts
  /\ pw_pairs_in_contact' = NoContacts
  /\ Log(<<"clear_lists">>)
  /\ Goto(Following("clear_lists"))
  /\ UNCHANGED <<config, units, objects, counters, obs, step_number,
                 particles_were_inserted, triangulation, candidates,
                 particle_points_in_contact, particle_lines_in_contact, runLog>>

\* dem.cc:514-519
ClearLists ==
  /\ pc = "clear_lists"
  /\ cells_neighbor_list' = {}
  /\ boundary_cells' = {}
  /\ Log(<<"clear_lists">>)
  /\ Goto(Following("clear_lists"))
  /\ UNCHANGED <<config, units, objects, counters, obs, step_number, particles_were_inserted, triangulation,
                 candidates, contacts, runLog>>

\* the repartition block without the recomputation of the lists
RebuildListsOmitted ==
  /\ pc = "rebuild_lists"
  /\ Goto(Following("rebuild_lists"))
  /\ UNCHANGED <<config, units, objects, counters, obs, step_number, particles_were_inserted, lists,
                 candidates, contacts, stepLog, runLog>>

\* dem.cc:521-531
RebuildLists ==
  /\ pc = "rebuild_lists"
  /\ cells_neighbor_list' = find_cell_neighbors(triangulation, cells_neighbor_list)
  /\ boundary_cells' = find_boundary_cells_information(triangulation, boundary_cells)
  /\ Log(<<"find_cell_neighbors">>)
  /\ Goto(Following("rebuild_lists"))
  /\ UNCHANGED <<config, units, objects, counters, obs, step_number, particles_were_inserted, triangulation,
                 candidates, contacts, runLog>>

\* dem.cc:536
ReinitializeForce ==
  /\ pc = "reinitialize_force"
  /\ Log(<<"reinitialize_force">>)
  /\ Goto(Following("reinitialize_force"))
  /\ UNCHANGED <<config, units, objects, counters, obs, step_number, particles_were_inserted, lists,
                 candidates, contacts, runLog>>

\* dem.cc:199-209, called at dem.cc:539
InsertParticles ==
  /\ pc = "insert_particles"
  /\ IF InsertionDue
       THEN /\ Log(<<"insert">>)
            /\ runLog' = runLog \cup {step_number}
            /\ particles_were_inserted' = TRUE
       ELSE /\ particles_were_inserted' = FALSE
            /\ UNCHANGED <<stepLog, runLog>>
  /\ Goto(Following("insert_particles"))
  /\ UNCHANGED <<config, units, objects, counters, obs, step_number, lists, candidates, contacts>>

\* dem.cc:542-546
SortParticles ==
  /\ pc = "sort"
  /\ IF DetectionDue THEN Log(<<"sort">>) ELSE UNCHANGED stepLog
  /\ Goto(Following("sort"))
  /\ UNCHANGED <<config, units, objects, counters, obs, step_number, particles_were_inserted, lists,
                 candidates, contacts, runLog>>

\* dem.cc:548
ExchangeGhostParticles ==
  /\ pc = "exchange_ghost"
  /\ Log(<<"exchange_ghost">>)
  /\ Goto(Following("exchange_ghost"))
  /\ UNCHANGED <<config, units, objects, counters, obs, step_number, particles_were_inserted, lists,
                 candidates, contacts, runLog>>

\* dem.cc:550-560  particle-particle broad search
PPBroadSearch ==
  /\ pc = "pp_broad"
  /\ IF DetectionDue
       THEN /\ \E near \in SUBSET PPairs : \E ghost \in SUBSET near :
                 /\ local_contact_pair_candidates' = near \ ghost
                 /\ ghost_contact_pair_candidates' = ghost
            /\ Log(<<"pp_broad">>)
       ELSE UNCHANGED <<local_contact_pair_candidates,
                        ghost_contact_pair_candidates, stepLog>>
  /\ Goto(Following("pp_broad"))
  /\ UNCHANGED <<config, units, objects, counters, obs, step_number, particles_were_inserted, lists,
                 pw_contact_candidates, particle_point_contact_candidates,
                 particle_line_contact_candidates, contacts, runLog>>

\* the broad search looking for particle-line candidates whatever dim is
particle_wall_broad_search_with_lines ==
  /\ pw_contact_candidates' \in SUBSET Walls
  /\ particle_point_contact_candidates' \in SUBSET Points
  /\ particle_line_contact_candidates' \in SUBSET Lines
  /\ Log(<<"pw_broad", "point_broad", "line_broad">>)

\* dem.cc:211-230
particle_wall_broad_search ==
  /\ pw_contact_candidates' \in SUBSET Walls
  /\ particle_point_contact_candidates' \in SUBSET Points
  /\ IF dim = 3
       THEN /\ particle_line_contact_candidates' \in SUBSET Lines
            /\ Log(<<"pw_broad", "point_broad", "line_broad">>)
       ELSE /\ UNCHANGED particle_line_contact_candidates
            /\ Log(<<"pw_broad", "point_broad">>)

\* dem.cc:562-567
PWBroadSearch ==
  /\ pc = "pw_broad"
  /\ IF DetectionDue
       THEN particle_wall_broad_search
       ELSE UNCHANGED <<pw_contact_candidates, particle_point_contact_candidates,
                        particle_line_contact_candidates, stepLog>>
  /\ Goto(Following("pw_broad"))
  /\ UNCHANGED <<config, units, objects, counters, obs, step_number, particles_were_inserted, lists,
                 local_contact_pair_candidates, ghost_contact_pair_candidates,
                 contacts, runLog>>

\* dem.cc:569-578
LocalizeContacts ==
  /\ pc = "localize"
  /\ IF DetectionDue
       THEN /\ local_adjacent_particles' =
                 localize_adjacent(local_adjacent_particles, ghost_adjacent_particles,
                                   local_contact_pair_candidates,
                                   ghost_contact_pair_candidates)
            /\ ghost_adjacent_particles' =
                 localize_adjacent(ghost_adjacent_particles, local_adjacent_particles,
                                   ghost_contact_pair_candidates,
                                   local_contact_pair_candidates)
            /\ pw_pairs_in_contact' =
                 Restrict(pw_pairs_in_contact, pw_contact_candidates)
            /\ local_contact_pair_candidates' =
                 local_contact_pair_candidates \
                   (DOMAIN local_adjacent_particles \cup DOMAIN ghost_adjacent_particles)
            /\ ghost_contact_pair_candidates' =
                 ghost_contact_pair_candidates \
                   (DOMAIN local_adjacent_particles \cup DOMAIN ghost_adjacent_particles)
            /\ pw_contact_candidates' =
                 pw_contact_candidates \ DOMAIN pw_pairs_in_contact
            /\ obs' = [obs EXCEPT !.pp_before = PPContacts,
                                   !.pw_before = pw_pairs_in_contact]
            /\ Log(<<"localize">>)
       ELSE UNCHANGED <<local_adjacent_particles, ghost_adjacent_particles,
                        pw_pairs_in_contact, local_contact_pair_candidates,
                        ghost_contact_pair_candidates, pw_contact_candidates,
                        stepLog, obs>>
  /\ Goto(Following("localize"))
  /\ UNCHANGED <<config, units, objects, counters, step_number, particles_were_inserted, lists,
                 particle_point_contact_candidates,
                 particle_line_contact_candidates,
                 particle_points_in_contact, particle_lines_in_contact, runLog>>

\* the ghost particles located on every step, detection steps included
LocateParticlesInCellsGhostAlways ==
  /\ pc = "locate"
  /\ IF DetectionDue
       THEN Log(<<"locate_local", "locate_ghost">>)
       ELSE Log(<<"locate_ghost">>)
  /\ Goto(Following("locate"))
  /\ UNCHANGED <<config, units, objects, counters, obs, step_number,
                 particles_were_inserted, lists, candidates, contacts, runLog>>

\* dem.cc:580-596
LocateParticlesInCells ==
  /\ pc = "locate"
  /\ IF DetectionDue
       THEN Log(<<"locate_local">>)
       ELSE Log(<<"locate_ghost">>)
  /\ Goto(Following("locate"))
  /\ UNCHANGED <<config, units, objects, counters, obs, step_number, particles_were_inserted, lists,
                 candidates, contacts, runLog>>

\* the effect of pp_Fine_Search on the contact collections when the pairs in
\* `overlapping` are the ones that overlap
pp_Fine_Search(overlapping) ==
  /\ local_adjacent_particles' =
       fine_search(local_adjacent_particles,
                   local_contact_pair_candidates, overlapping)
  /\ ghost_adjacent_particles' =
       fine_search(ghost_adjacent_particles,
                   ghost_contact_pair_candidates, overlapping)
  /\ local_contact_pair_candidates' = {}
  /\ ghost_contact_pair_candidates' = {}
  /\ Log(<<"pp_fine">>)

\* the overlapping particle pairs of this detection step
PPOverlaps ==
  broad_search_overlaps(local_contact_pair_candidates \cup
                          ghost_contact_pair_candidates, PPContacts)

\* the observation of a particle-particle fine-search pass
ObservePP(overlapping) ==
  obs' = [obs EXCEPT !.pp_overlap = overlapping,
                     !.lost = @ \cup (DOMAIN obs.pp_before \ overlapping)]

\* the particle-particle fine search run only when particles were inserted
PPFineSearchOnInsertion ==
  /\ pc = "pp_fine"
  /\ IF DetectionDue
       THEN \E overlapping \in PPOverlaps :
              /\ ObservePP(overlapping)
              /\ IF particles_were_inserted
                   THEN pp_Fine_Search(overlapping)
                   ELSE UNCHANGED <<local_adjacent_particles,
                                    ghost_adjacent_particles,
                                    local_contact_pair_candidates,
                                    ghost_contact_pair_candidates, stepLog>>
       ELSE UNCHANGED <<local_adjacent_particles, ghost_adjacent_particles,
                        local_contact_pair_candidates,
                        ghost_contact_pair_candidates, stepLog, obs>>
  /\ Goto(Following("pp_fine"))
  /\ UNCHANGED <<config, units, objects, counters, step_number,
                 particles_were_inserted, lists,
                 pw_contact_candidates, particle_point_contact_candidates,
                 particle_line_contact_candidates, pw_pairs_in_contact,
                 particle_points_in_contact, particle_lines_in_contact, runLog>>

\* dem.cc:598-608  particle-particle fine search
PPFineSearch ==
  /\ pc = "pp_fine"
  /\ IF DetectionDue
       THEN \E overlapping \in PPOverlaps :
              /\ ObservePP(overlapping)
              /\ pp_Fine_Search(overlapping)
       ELSE UNCHANGED <<local_adjacent_particles, ghost_adjacent_particles,
                        local_contact_pair_candidates,
                        ghost_contact_pair_candidates, stepLog, obs>>
  /\ Goto(Following("pp_fine"))
  /\ UNCHANGED <<config, units, objects, counters, step_number,
                 particles_were_inserted, lists,
                 pw_contact_candidates, particle_point_contact_candidates,
                 particle_line_contact_candidates, pw_pairs_in_contact,
                 particle_points_in_contact, particle_lines_in_contact, runLog>>

\* dem.cc:610-615  particle-particle contact force
PPContactForce ==
  /\ pc = "pp_force"
  /\ local_adjacent_particles' = calculate_contact_force(local_adjacent_particles)
  /\ ghost_adjacent_particles' = calculate_contact_force(ghost_adjacent_particles)
  /\ obs' = [obs EXCEPT !.pp_overlap = {}, !.pp_before = NoContacts,
                        !.lost = @ \ DOMAIN PPContacts]
  /\ Log(<<"pp_force">>)
  /\ Goto(Following("pp_force"))
  /\ UNCHANGED <<config, units, objects, counters, step_number, particles_were_inserted, lists,
                 candidates, pw_pairs_in_contact, particle_points_in_contact,
                 particle_lines_in_contact, runLog>>

\* dem.cc:232-247
particle_wall_fine_search ==
  /\ \E overlapping \in broad_search_overlaps(pw_contact_candidates,
                                               pw_pairs_in_contact) :
       /\ pw_pairs_in_contact' =
            fine_search(pw_pairs_in_contact, pw_contact_candidates, overlapping)
       /\ obs' = [obs EXCEPT !.pw_overlap = overlapping]
  /\ pw_contact_candidates' = {}
  /\ particle_points_in_contact' \in SUBSET particle_point_contact_candidates
  /\ particle_point_contact_candidates' = {}
  /\ IF dim = 3
       THEN /\ particle_lines_in_contact' \in SUBSET particle_line_contact_candidates
            /\ particle_line_contact_candidates' = {}
            /\ Log(<<"pw_fine", "point_fine", "line_fine">>)
       ELSE /\ UNCHANGED <<particle_lines_in_contact,
                           particle_line_contact_candidates>>
            /\ Log(<<"pw_fine", "point_fine">>)

\* the particle-wall/point/line fine search run only when particles were
\* inserted
PWFineSearchOnInsertion ==
  /\ pc = "pw_fine"
  /\ IF particles_were_inserted
       THEN particle_wall_fine_search
       ELSE UNCHANGED <<pw_pairs_in_contact, pw_contact_candidates,
                        particle_points_in_contact,
                        particle_point_contact_candidates,
                        particle_lines_in_contact,
                        particle_line_contact_candidates, stepLog, obs>>
  /\ Goto(Following("pw_fine"))
  /\ UNCHANGED <<config, units, objects, counters, step_number,
                 particles_were_inserted, lists,
                 local_contact_pair_candidates, ghost_contact_pair_candidates,
                 local_adjacent_particles, ghost_adjacent_particles, runLog>>

\* dem.cc:617-622
PWFineSearch ==
  /\ pc = "pw_fine"
  /\ IF DetectionDue
       THEN particle_wall_fine_search
       ELSE UNCHANGED <<pw_pairs_in_contact, pw_contact_candidates,
                        particle_points_in_contact,
                        particle_point_contact_candidates,
                        particle_lines_in_contact,
                        particle_line_contact_candidates, stepLog, obs>>
  /\ Goto(Following("pw_fine"))
  /\ UNCHANGED <<config, units, objects, counters, step_number, particles_were_inserted, lists,
                 local_contact_pair_candidates, ghost_contact_pair_candidates,
                 local_adjacent_particles, ghost_adjacent_particles, runLog>>

\* the particle-wall force computed on detection steps only
particle_wall_contact_force_on_detection ==
  IF DetectionDue
    THEN /\ pw_pairs_in_contact' = calculate_contact_force(pw_pairs_in_contact)
         /\ IF dim = 3
              THEN Log(<<"pw_force", "point_force", "line_force">>)
              ELSE Log(<<"pw_force", "point_force">>)
    ELSE UNCHANGED <<pw_pairs_in_contact, stepLog>>

\* dem.cc:249-267
particle_wall_contact_force ==
  /\ pw_pairs_in_contact' = calculate_contact_force(pw_pairs_in_contact)
  /\ IF dim = 3
       THEN Log(<<"pw_force", "point_force", "line_force">>)
       ELSE Log(<<"pw_force", "point_force">>)

\* dem.cc:624-625
PWContactForce ==
  /\ pc = "pw_force"
  /\ particle_wall_contact_force
  /\ obs' = [obs EXCEPT !.pw_overlap = {}, !.pw_before = NoContacts]
  /\ Goto(Following("pw_force"))
  /\ UNCHANGED <<config, units, objects, counters, step_number, particles_were_inserted, lists,
                 candidates, local_adjacent_particles, ghost_adjacent_particles,
                 particle_points_in_contact, particle_lines_in_contact, runLog>>

\* the integrator called on detection steps only
IntegrationOnDetection ==
  /\ pc = "integrator"
  /\ IF DetectionDue
       THEN /\ Log(<<"integration">>)
            /\ counters' = [counters EXCEPT !.integrations = @ + 1]
       ELSE UNCHANGED <<stepLog, counters>>
  /\ Goto(Following("integrator"))
  /\ UNCHANGED <<config, units, objects, obs, step_number,
                 particles_were_inserted, lists, candidates, contacts, runLog>>

\* dem.cc:627-630
Integration ==
  /\ pc = "integrator"
  /\ Log(<<"integration">>)
  /\ counters' = [counters EXCEPT !.integrations = @ + 1]
  /\ Goto(Following("integrator"))
  /\ UNCHANGED <<config, units, objects, obs, step_number, particles_were_inserted, lists,
                 candidates, contacts, runLog>>

\* finish_simulation() called after every timestep
OutputThenFinish ==
  /\ pc = "output"
  /\ counters' = [counters EXCEPT !.finish_simulation = @ + 1]
  /\ Goto(Following("output"))
  /\ UNCHANGED <<config, units, objects, obs, step_number,
                 particles_were_inserted, lists, candidates, contacts,
                 stepLog, runLog>>

\* the results written whatever is_output_iteration() returns
OutputEveryStep ==
  /\ pc = "output"
  /\ \E is_output_iteration \in {"true", "false"} :
       obs' = [obs EXCEPT !.is_output_iteration = is_output_iteration]
  /\ Log(<<"write_output_results">>)
  /\ Goto(Following("output"))
  /\ UNCHANGED <<config, units, objects, counters, step_number,
                 particles_were_inserted, lists, candidates, contacts, runLog>>

\* dem.cc:632-636
Output ==
  /\ pc = "output"
  /\ \E is_output_iteration \in {"true", "false"} :
       /\ obs' = [obs EXCEPT !.is_output_iteration = is_output_iteration]
       /\ IF is_output_iteration = "true"
            THEN Log(<<"write_output_results">>)
            ELSE UNCHANGED stepLog
  /\ Goto(Following("output"))
  /\ UNCHANGED <<config, units, objects, counters, step_number, particles_were_inserted, lists,
                 candidates, contacts, runLog>>

\* dem.cc:639, 269-291
FinishSimulation ==
  /\ pc = "finish_simulation"
  /\ counters' = [counters EXCEPT !.finish_simulation = @ + 1]
  /\ Goto("done")
  /\ UNCHANGED <<config, units, objects, obs, step_number,
                 particles_were_inserted, lists, candidates, contacts,
                 stepLog, runLog>>

(* ------------------- functions called on their own --------------------- *)
Solver == <<config, objects, counters, obs, step_number,
            particles_were_inserted, lists, candidates, contacts, stepLog,
            runLog>>

\* dem.cc:112-160
CellWeightCall ==
  /\ pc = "call" /\ call.fn = "cell_weight"
  /\ \E outcome \in cell_weight(call.cell, call.status) :
       ret' = [fn |-> "cell_weight", value |-> outcome.value,
               raised |-> outcome.raised]
  /\ Goto("return")
  /\ UNCHANGED <<Solver, call, gls>>

\* dem.cc:293-318
ReinitializeForceCall ==
  /\ pc = "call" /\ call.fn = "reinitialize_force"
  /\ ret' = [fn |-> "reinitialize_force",
             particle_handler |-> reinitialize_force(call.particle_handler)]
  /\ Goto("return")
  /\ UNCHANGED <<Solver, call, gls>>

\* dem.cc:512 on the solver the constructor built (dem.cc:83-96)
RepartitionCall ==
  /\ pc = "call" /\ call.fn = "repartition"
  /\ ret' = [fn |-> "repartition",
             handlers |-> triangulation_repartition(signal_connections,
                            call.location, call.owner, call.new_owner)]
  /\ Goto("return")
  /\ UNCHANGED <<Solver, call, gls>>

(* ---------------- functions of GLSNavierStokesSolver ------------------- *)
GLSFrame == UNCHANGED <<Solver, call>>
Returned(raised) == ret' = [fn |-> call.fn, raised |-> raised]

\* glsNS.h:747-790, up to the call of newton_iteration in the viscous branch
SetInitialCondition ==
  /\ pc = "call" /\ call.fn = "set_initial_condition"
  /\ IF call.restart
       THEN /\ gls' = [gls EXCEPT
                 !.present_solution = Point("read_checkpoint", 0, 0),
                 !.log = @ \o <<"read_checkpoint">>]
            /\ Returned("none") /\ Goto("return")
     ELSE IF call.initial_condition_type = "L2projection"
       THEN /\ gls' = [gls EXCEPT
                 !.present_solution = Point("newton_update", 0, 0),
                 !.log = @ \o <<"assemble_L2_projection",
                                "solve_linear_system", "finish_time_step",
                                "postprocess">>]
            /\ Returned("none") /\ Goto("return")
     ELSE IF call.initial_condition_type = "nodal"
       THEN /\ gls' = [gls EXCEPT
                 !.present_solution = Point("set_nodal_values", 0, 0),
                 !.log = @ \o <<"set_nodal_values", "finish_time_step",
                                "postprocess">>]
            /\ Returned("none") /\ Goto("return")
     ELSE IF call.initial_condition_type = "viscous"
       THEN /\ gls' = [gls EXCEPT
                 !.present_solution = Point("set_nodal_values", 0, 0),
                 !.log = @ \o <<"set_nodal_values", "newton_iteration">>,
                 !.saved_viscosity = gls.viscosity,
                 !.viscosity = call.ic_viscosity,
                 !.previousControl = gls.method,
                 !.method = "steady"]
            /\ ret' = ret /\ Goto("newton_iteration")
     ELSE /\ gls' = gls
          /\ Returned("std::runtime_error") /\ Goto("return")
  /\ GLSFrame

\* glsNS.h:780-784  the viscous branch after newton_iteration returned
SetInitialConditionViscousEnd ==
  /\ pc = "viscous_end"
  /\ gls' = set_initial_condition_viscous_end(gls)
  /\ Returned("none") /\ Goto("return")
  /\ GLSFrame

\* glsNS.h:1366-1372
NewtonIteration ==
  /\ \/ pc = "call" /\ call.fn = "newton_iteration"
     \/ pc = "newton_iteration"
  /\ gls' = [gls EXCEPT !.outer_iteration = 0, !.last_res = 10,
                        !.current_res = 10, !.evaluated = << >>]
  /\ Goto("newton_while")
  /\ UNCHANGED ret
  /\ GLSFrame

\* glsNS.h:1373-1387  the test of the outer loop, and the body up to the
\* step-length search
NewtonWhile ==
  /\ pc = "newton_while"
  /\ IF /\ Greater(gls.current_res, call.tolerance)
        /\ gls.outer_iteration < call.maxIterations
       THEN /\ \E norm \in Residuals :
                 gls' = [gls EXCEPT
                   !.evaluation_point = gls.present_solution,
                   !.current_res =
                      IF gls.outer_iteration = 0 THEN norm ELSE @,
                   !.last_res =
                      IF gls.outer_iteration = 0 THEN norm ELSE @,
                   !.alpha_den = 1,
                   !.evaluated = << >>]
            /\ ret' = ret /\ Goto("newton_for")
     ELSE IF call.fn = "newton_iteration"
       THEN gls' = gls /\ Returned("none") /\ Goto("return")
     ELSE gls' = gls /\ ret' = ret /\ Goto("viscous_end")
  /\ GLSFrame

\* glsNS.h:1389-1403  one pass of the step-length search, or its end
NewtonFor ==
  /\ pc = "newton_for"
  /\ IF alpha_above_floor(gls.alpha_den)
       THEN \E norm \in Residuals :
              /\ gls' = [gls EXCEPT
                   !.evaluation_point =
                      Point("line_search", gls.outer_iteration,
                            gls.alpha_den),
                   !.current_res = norm,
                   !.evaluated = Append(@, gls.alpha_den),
                   !.alpha_den =
                      IF search_ends(norm, gls.last_res, call.tolerance)
                        THEN @ ELSE 2 * @]
              /\ IF search_ends(norm, gls.last_res, call.tolerance)
                   THEN Goto("newton_accept") ELSE Goto("newton_for")
     ELSE gls' = gls /\ Goto("newton_accept")
  /\ UNCHANGED ret
  /\ GLSFrame

\* glsNS.h:1404-1406
NewtonAccept ==
  /\ pc = "newton_accept"
  /\ gls' = [gls EXCEPT !.present_solution = gls.evaluation_point,
                        !.last_res = gls.current_res,
                        !.outer_iteration = @ + 1]
  /\ Goto("newton_while")
  /\ UNCHANGED ret
  /\ GLSFrame

Next ==
  \/ Constructor
  \/ FindCellNeighborsStep
  \/ SetTypes
  \/ Integrate
  \/ Repartition
  \/ ClearLists
  \/ RebuildLists
  \/ ReinitializeForce
  \/ InsertParticles
  \/ SortParticles
  \/ ExchangeGhostParticles
  \/ PPBroadSearch
  \/ PWBroadSearch
  \/ LocalizeContacts
  \/ LocateParticlesInCells
  \/ PPFineSearch
  \/ PPContactForce
  \/ PWFineSearch
  \/ PWContactForce
  \/ Integration
  \/ Output
  \/ FinishSimulation
  \/ CellWeightCall
  \/ ReinitializeForceCall
  \/ RepartitionCall
  \/ SetInitialCondition
  \/ SetInitialConditionViscousEnd
  \/ NewtonIteration
  \/ NewtonWhile
  \/ NewtonFor
  \/ NewtonAccept

Spec == Init /\ [][Next]_vars

\* solve() is sequential code that runs to its end: a statement that can
\* execute does execute
FairSpec == Spec /\ WF_vars(Next)

(* ====================== properties of the solver ======================= *)
Has(e) == \E i \in DOMAIN stepLog : stepLog[i] = e
Count(e) == Cardinality({i \in DOMAIN stepLog : stepLog[i] = e})
\* every occurrence of a precedes every occurrence of b in the current step
Precedes(a, b) ==
  \A j \in DOMAIN stepLog :
    (stepLog[j] = b) => \A i \in j..Len(stepLog) : stepLog[i] # a
\* a timestep has been executed to its end
StepEnd == step_number >= 1 /\ pc \in {"integrate", "finish_simulation", "done"}

BroadSearches == {"pp_broad", "pw_broad", "point_broad", "line_broad"}
FineSearches  == {"pp_fine", "pw_fine", "point_fine", "line_fine"}
Forces        == {"pp_force", "pw_force", "point_force", "line_force"}
TimestepWork  == BroadSearches \cup FineSearches \cup Forces \cup
                 {"reinitialize_force", "insert", "sort", "exchange_ghost",
                  "localize", "locate_local", "locate_ghost", "integration"}

\* C1: a configuration with R mod C # 0 ends in the constructor's runtime
\* error and never executes any part of a timestep; with C >= 1 and
\* R mod C = 0 the constructor does not raise it.
C1_CadenceRejectedAtStartup ==
  /\ (contact_detection_frequency >= 1
        /\ repartition_frequency % contact_detection_frequency # 0)
       => /\ pc \in {"new", "runtime_error"}
          /\ step_number = 0
          /\ \A e \in TimestepWork : ~Has(e)
  /\ (contact_detection_frequency >= 1
        /\ repartition_frequency % contact_detection_frequency = 0)
       => pc # "runtime_error"

C1_Witness ==
  /\ pc = "runtime_error"
  /\ contact_detection_frequency >= 1
  /\ repartition_frequency % contact_detection_frequency # 0

\* C2 as stated: within a timestep every broad search precedes every fine
\* search, every fine search precedes every force computation and every
\* force computation precedes the integration.
C2_StrictPhaseOrder ==
  /\ \A b \in BroadSearches : \A f \in FineSearches : Precedes(b, f)
  /\ \A f \in FineSearches : \A c \in Forces : Precedes(f, c)
  /\ \A c \in Forces : Precedes(c, "integration")

\* C2 amended: every broad search precedes every fine search; the
\* particle-particle fine search precedes every force computation; the
\* particle-wall/point/line fine searches precede the particle-wall/point/line
\* force computations but follow the particle-particle force computation;
\* every force computation precedes the integration.
C2_PhaseOrder ==
  /\ \A b \in BroadSearches : \A f \in FineSearches : Precedes(b, f)
  /\ \A c \in Forces : Precedes("pp_fine", c)
  /\ \A f \in FineSearches \ {"pp_fine"} :
       /\ \A c \in Forces \ {"pp_force"} : Precedes(f, c)
       /\ Precedes("pp_force", f)
  /\ \A c \in Forces : Precedes(c, "integration")
  /\ StepEnd => Has("pp_force") /\ Has("pw_force") /\ Has("integration")

C2_Witness ==
  /\ StepEnd
  /\ \A e \in {"pp_broad", "pw_broad", "pp_fine", "pw_fine", "pp_force",
               "pw_force", "integration"} : Has(e)

\* the step is a detection step: insert_particles() returned true in it or
\* the step number is a multiple of the contact detection frequency
DetectionStep ==
  \/ particles_were_inserted
  \/ step_number % contact_detection_frequency = 0

\* C3 as stated: all eight searches run on every detection step and none
\* of them on any other step.
C3_SearchesOnDetectionSteps ==
  (step_number >= 1) =>
    /\ ~DetectionStep =>
         \A e \in BroadSearches \cup FineSearches : ~Has(e)
    /\ (StepEnd /\ DetectionStep) =>
         \A e \in BroadSearches \cup FineSearches : Has(e)

\* C3 amended: the particle-particle, particle-wall and particle-point broad
\* and fine searches run on exactly the detection steps; the particle-line
\* broad and fine searches run on exactly the detection steps when dim = 3
\* and never when dim = 2.
C3_SearchesOnDetectionSteps3D ==
  (step_number >= 1) =>
    /\ ~DetectionStep =>
         \A e \in BroadSearches \cup FineSearches : ~Has(e)
    /\ (StepEnd /\ DetectionStep) =>
         \A e \in (BroadSearches \cup FineSearches) \ {"line_broad", "line_fine"} :
            Count(e) = 1
    /\ (StepEnd /\ DetectionStep /\ dim = 3) =>
         Count("line_broad") = 1 /\ Count("line_fine") = 1
    /\ (dim = 2) => ~Has("line_broad") /\ ~Has("line_fine")

C3_Witness ==
  /\ StepEnd
  /\ dim = 2
  /\ particles_were_inserted
  /\ step_number % contact_detection_frequency # 0
  /\ Has("pp_broad") /\ Has("point_fine") /\ ~Has("line_broad")

\* C4: in every timestep the particle-particle force computation and the
\* particle-wall/point/line force computation are each executed exactly once,
\* on detection steps and on the other steps alike.
C4_ForcesOncePerStep ==
  /\ Count("pp_force") <= 1 /\ Count("pw_force") <= 1
  /\ Count("point_force") = Count("pw_force")
  /\ StepEnd => Count("pp_force") = 1 /\ Count("pw_force") = 1

C4_Witness ==
  /\ StepEnd
  /\ ~DetectionStep
  /\ Count("pp_force") = 1 /\ Count("pw_force") = 1

\* C5: in every timestep the ghost exchange precedes every contact-force
\* computation; no force is computed in a step without a ghost exchange.
C5_GhostExchangeBeforeForces ==
  \A c \in Forces :
    /\ Has(c) => Has("exchange_ghost")
    /\ Precedes("exchange_ghost", c)

C5_Witness ==
  /\ StepEnd
  /\ ~DetectionStep
  /\ Has("exchange_ghost") /\ Has("pp_force") /\ Has("pw_force")

\* C6: insert_particles() returns true exactly when it invoked the insertion
\* strategy in the current step, and a step in which it returned true sorts
\* the particles into cells and runs the broad and the fine searches,
\* whatever step_number mod contact_detection_frequency is.
C6_InsertionForcesDetection ==
  /\ particles_were_inserted <=> Has("insert")
  /\ Count("insert") <= 1
  /\ (StepEnd /\ Has("insert")) =>
       /\ \A e \in {"sort", "pp_broad", "pw_broad", "point_broad",
                    "pp_fine", "pw_fine", "point_fine"} : Has(e)
       /\ Precedes("insert", "sort")
       /\ \A b \in BroadSearches : Precedes("sort", b)

C6_Witness ==
  /\ StepEnd
  /\ Has("insert")
  /\ step_number % contact_detection_frequency # 0
  /\ Has("sort") /\ Has("pp_broad") /\ Has("pp_fine") /\ Has("pw_fine")

\* the number of timesteps executed to their end
StepsDone == IF StepEnd THEN step_number
             ELSE IF step_number >= 1 THEN step_number - 1 ELSE 0

\* C7: for every insertion frequency f >= 1, every window of f consecutive
\* steps contains exactly one step in which the insertion strategy is invoked.
C7_InsertionCadence ==
  (insertion_frequency >= 1) =>
    \A s \in 1..(StepsDone - insertion_frequency + 1) :
      Cardinality(runLog \cap (s..(s + insertion_frequency - 1))) = 1

\* the repartition block of the current step has been executed
Repartitioned == Has("repartition")

\* C8: on a repartition step every derived cache is emptied after the
\* repartition, and is rebuilt from the new decomposition before a force
\* computation uses it.
C8_CachesInvalidatedOnRepartition ==
  /\ (pc = "rebuild_lists") =>
       /\ cells_neighbor_list = {} /\ boundary_cells = {}
       /\ local_contact_pair_candidates = {}
       /\ ghost_contact_pair_candidates = {}
       /\ pw_contact_candidates = {}
       /\ local_adjacent_particles = NoContacts
       /\ ghost_adjacent_particles = NoContacts
       /\ pw_pairs_in_contact = NoContacts
  /\ (Repartitioned /\ pc \in {"pp_force", "pw_force"}) =>
       /\ cells_neighbor_list = {triangulation}
       /\ boundary_cells = {triangulation}

\* C9: for every accepted configuration a step that repartitions is a
\* detection step: after the repartition the particles are sorted and the
\* broad and fine searches that rebuild the local and ghost contact
\* collections run before any force computation.
C9_RepartitionStepIsDetectionStep ==
  /\ (Repartitioned /\ (Has("pp_force") \/ Has("pw_force"))) =>
       Has("sort") /\ Has("pp_broad") /\ Has("pw_broad") /\ Has("pp_fine")
  /\ (Repartitioned /\ Has("pw_force")) => Has("pw_fine")
  /\ Precedes("repartition", "sort")
  /\ \A b \in BroadSearches : Precedes("sort", b)
  /\ \A c \in Forces : Precedes("pp_fine", c)

C9_Witness ==
  /\ StepEnd
  /\ Repartitioned
  /\ ~particles_were_inserted
  /\ repartition_frequency > contact_detection_frequency
  /\ Has("sort") /\ Has("pp_broad") /\ Has("pp_fine") /\ Has("pp_force")

\* C10: whenever a broad search runs, the neighbour-cell lists and the
\* boundary-cell associations are those computed from the current
\* decomposition: no broad search runs between a repartition and their
\* recomputation.
C10_BroadSearchReadsFreshLists ==
  (pc \in {"pp_broad", "pw_broad"} \/ \E b \in BroadSearches : Has(b)) =>
     /\ cells_neighbor_list = {triangulation}
     /\ boundary_cells = {triangulation}

C10_Witness ==
  /\ Has("pw_broad")
  /\ Repartitioned
  /\ triangulation >= 2
  /\ cells_neighbor_list = {triangulation}

\* a method selection that names no variant
InvalidSelection ==
  \E k \in DOMAIN methods : methods[k] = "invalid"

\* C13: with an unrecognised insertion, integration, particle-particle or
\* particle-wall selection solve() ends in an exception before the first
\* timestep: integrate() is never called and no timestep work is executed.
C13_InvalidSelectionAbortsBeforeLoop ==
  /\ InvalidSelection =>
       /\ pc \in {"new", "runtime_error", "constructed", "set_types", "exception"}
       /\ step_number = 0
       /\ counters = NoCounters
       /\ \A e \in TimestepWork : ~Has(e)
  /\ (pc = "exception") => InvalidSelection

C13_Witness ==
  /\ pc = "exception"
  /\ methods.pw_force = "invalid"
  /\ objects.pp_force # "null"
  /\ objects.pw_force = "null"

\* the loop is at its head or has been left
AtLoopHead == pc \in {"integrate", "finish_simulation", "done"}

\* C14: the loop is left only at the integrate() test at the head of an
\* iteration, so every started step has reset the forces, computed both
\* contact forces and integrated before the loop can end, and the number of
\* integrations equals the number of times integrate() returned true.
C14_NoPartialStep ==
  /\ counters.stopped => AtLoopHead
  /\ AtLoopHead =>
       /\ counters.integrations = step_number
       /\ (step_number >= 1) =>
            /\ Count("reinitialize_force") = 1
            /\ Count("pp_force") = 1 /\ Count("pw_force") = 1
            /\ Count("integration") = 1
            /\ \A c \in Forces : Precedes("reinitialize_force", c)
  /\ (~AtLoopHead /\ step_number >= 1) =>
       counters.integrations \in {step_number - 1, step_number}

C14_Witness ==
  /\ pc = "done"
  /\ step_number >= 2
  /\ counters.integrations = step_number
  /\ Has("integration")

\* C15 (safety part): once integrate() has returned false the loop body is
\* not entered again and finish_simulation() has been called exactly once
\* when solve() is done.
Stopped ==
  /\ counters.stopped => pc \in {"finish_simulation", "done"}
  /\ counters.finish_simulation = (IF pc = "done" THEN 1 ELSE 0)

\* nothing of a timestep is executed by a step taken after the stop
QuietAfterStop ==
  counters.stopped =>
    /\ stepLog' = stepLog /\ runLog' = runLog
    /\ step_number' = step_number
    /\ counters'.integrations = counters.integrations
    /\ triangulation' = triangulation
    /\ contacts' = contacts /\ candidates' = candidates

\* C15: if integrate() returns false, solve() terminates: it calls
\* finish_simulation() exactly once, and after the false return no
\* repartition, insertion, search, force computation, integration or output
\* write is executed.
C15_TerminatesAfterStop ==
  /\ []Stopped
  /\ [][QuietAfterStop]_vars
  /\ (counters.stopped ~> (pc = "done" /\ counters.finish_simulation = 1))

C15_Witness ==
  /\ counters.stopped
  /\ pc = "done"
  /\ counters.finish_simulation = 1
  /\ step_number >= 1

\* C19: every broad search is preceded in its own timestep by the sort of
\* the particles into subdomains and cells and then by the ghost exchange;
\* the sort runs on exactly the detection steps, the ghost exchange on every
\* step.
C19_SortAndGhostsBeforeBroadSearch ==
  /\ \A b \in BroadSearches :
       Has(b) => /\ Count("sort") = 1 /\ Count("exchange_ghost") = 1
                 /\ Precedes("sort", b)
                 /\ Precedes("exchange_ghost", b)
  /\ Precedes("sort", "exchange_ghost")
  /\ StepEnd => /\ Count("exchange_ghost") = 1
                /\ Count("sort") = (IF DetectionStep THEN 1 ELSE 0)

C19_Witness ==
  /\ StepEnd
  /\ step_number >= 2
  /\ DetectionStep
  /\ Has("sort") /\ Has("exchange_ghost")
  /\ Has("pp_broad") /\ Has("pw_broad")

\* the searches and the force computation of one geometry kind
Kinds == {"pp", "pw", "point", "line"}
BroadOf(k) == CASE k = "pp" -> "pp_broad" [] k = "pw" -> "pw_broad"
                [] k = "point" -> "point_broad" [] k = "line" -> "line_broad"
FineOf(k)  == CASE k = "pp" -> "pp_fine" [] k = "pw" -> "pw_fine"
                [] k = "point" -> "point_fine" [] k = "line" -> "line_fine"
ForceOf(k) == CASE k = "pp" -> "pp_force" [] k = "pw" -> "pw_force"
                [] k = "point" -> "point_force" [] k = "line" -> "line_force"
\* the kinds solve() handles in this build
KindsOfDim == IF dim = 3 THEN Kinds ELSE Kinds \ {"line"}

\* C20: for each geometry kind taken separately, on a detection step the
\* broad search precedes the fine search, which precedes the force
\* computation of that kind, and every force computation precedes the
\* integration.
C20_PerKindPipelineOrder ==
  /\ \A k \in Kinds :
       /\ Precedes(BroadOf(k), FineOf(k))
       /\ Precedes(FineOf(k), ForceOf(k))
       /\ Precedes(BroadOf(k), ForceOf(k))
       /\ Precedes(ForceOf(k), "integration")
       /\ Has(FineOf(k)) => Has(BroadOf(k))
       /\ (Has(ForceOf(k)) /\ DetectionStep /\ StepEnd) => Has(FineOf(k))
  /\ (StepEnd /\ DetectionStep) =>
       \A k \in KindsOfDim :
         /\ Count(BroadOf(k)) = 1 /\ Count(FineOf(k)) = 1
         /\ Count(ForceOf(k)) = 1
  /\ StepEnd => Count("integration") = 1

C20_Witness ==
  /\ StepEnd
  /\ DetectionStep
  /\ dim = 3
  /\ \A k \in Kinds : Has(BroadOf(k)) /\ Has(FineOf(k)) /\ Has(ForceOf(k))
  /\ Has("integration")

\* the fine search of the current step has run: particle-particle,
\* particle-wall
AfterPPFine == pc = "pp_force" /\ DetectionDue
AfterPWFine == pc = "pw_force" /\ DetectionDue

KeptWhileOverlapping ==
  /\ AfterPPFine =>
       \A p \in DOMAIN obs.pp_before \cap obs.pp_overlap :
         p \in DOMAIN PPContacts /\ PPContacts[p] = obs.pp_before[p]
  /\ AfterPWFine =>
       \A w \in DOMAIN obs.pw_before \cap obs.pw_overlap :
         /\ w \in DOMAIN pw_pairs_in_contact
         /\ pw_pairs_in_contact[w] = obs.pw_before[w]

\* no statement of solve() other than localize_contacts and the fine searches
\* of a detection step deletes a contact object or lowers its accumulator
OnlyFineSearchDeletes ==
  /\ (pc \notin {"localize", "pp_fine"}) =>
       \A p \in DOMAIN PPContacts :
         p \in DOMAIN PPContacts' /\ PPContacts'[p] >= PPContacts[p]
  /\ (pc \notin {"localize", "pw_fine"}) =>
       \A w \in DOMAIN pw_pairs_in_contact :
         /\ w \in DOMAIN pw_pairs_in_contact'
         /\ pw_pairs_in_contact'[w] >= pw_pairs_in_contact[w]

WeighedActiveCell ==
  /\ ret.fn = "cell_weight"
  /\ call.cell.is_locally_owned
  /\ call.status \in {"CELL_PERSIST", "CELL_REFINE"}

\* the weight cell_weight returns for a locally owned persisting cell with n
\* particles
WeightOf(n) == unsigned_mul(n, particle_weight)

\* C11: for a locally owned cell with status CELL_PERSIST or CELL_REFINE and
\* n particles, cell_weight returns the mathematical product n * 10000 (no
\* part of the product is lost to the 32-bit result), and the weight is
\* strictly increasing in n.
C11_WeightIsExactProduct ==
  WeighedActiveCell =>
    /\ ret.raised = "none"
    /\ Product(call.cell.n_particles, particle_weight).carry = 0
    /\ ret.value = [lo |-> Product(call.cell.n_particles, particle_weight).lo,
                    hi |-> Product(call.cell.n_particles, particle_weight).hi]
    /\ \A m \in ParticleCounts :
         (m < call.cell.n_particles) => Less(WeightOf(m), ret.value)

\* C12: a repartition fires the store callback before the redistribution and
\* the load callback after it; after it every particle is held by exactly
\* one domain, the owner of its cell, and the number of particles over all
\* domains is what it was.
C12_ParticlesSurviveRepartition ==
  /\ Has("repartition") =>
       /\ Count("register_store_callback_function") = 1
       /\ Count("register_load_callback_function") = 1
       /\ Count("repartition") = 1
       /\ Precedes("register_store_callback_function", "repartition")
       /\ Precedes("repartition", "register_load_callback_function")
  /\ (ret.fn = "repartition") =>
       /\ \A p \in Particles :
            {d \in Domains : p \in ret.handlers[d]} =
              {call.new_owner[call.location[p]]}
       /\ Cardinality({x \in Domains \X Particles : x[2] \in ret.handlers[x[1]]})
            = Cardinality({x \in Domains \X Particles :
                 x[2] \in ParticlesOf(call.location, call.owner, x[1])})

\* a repartition that moved a cell with a particle in it to another domain
C12_Witness ==
  /\ ret.fn = "repartition"
  /\ \E p \in Particles :
       /\ call.owner[call.location[p]] # call.new_owner[call.location[p]]
       /\ p \in ret.handlers[call.new_owner[call.location[p]]]
       /\ p \notin ret.handlers[call.owner[call.location[p]]]

\* C16: reinitialize_force leaves every particle with zero force and zero
\* torque in all three stored components, for dim = 2 as for dim = 3.
C16_ForceAndTorqueZeroed ==
  (ret.fn = "reinitialize_force") =>
    \A i \in DOMAIN ret.particle_handler :
      /\ ret.particle_handler[i].force_x = 0
      /\ ret.particle_handler[i].force_y = 0
      /\ ret.particle_handler[i].force_z = 0
      /\ ret.particle_handler[i].M_x = 0
      /\ ret.particle_handler[i].M_y = 0
      /\ ret.particle_handler[i].M_z = 0

\* the positions of solve() inside the timestep loop and after it
InLoop ==
  pc \in {Program[i] : i \in 3..Len(Program)} \cup {"finish_simulation", "done"}

\* the variant each selection names
Selected ==
  [h \in Handles |->
     CASE h = "insertion" ->
            IF methods.insertion = "uniform" THEN "UniformInsertion"
            ELSE "NonUniformInsertion"
       [] h = "integration" ->
            IF methods.integration = "velocity_verlet"
              THEN "VelocityVerletIntegrator" ELSE "ExplicitEulerIntegrator"
       [] h = "pp_force" ->
            IF methods.pp_force = "pp_linear" THEN "PPLinearForce"
            ELSE "PPNonLinearForce"
       [] h = "pw_force" ->
            IF methods.pw_force = "pw_linear" THEN "PWLinearForce"
            ELSE "PWNonLinearForce"]

\* no step taken inside the loop writes a handle
NoWriteInLoop == InLoop => objects' = objects

\* C21 as stated: every handle is written exactly once, before the first
\* timestep, and holds the selected variant during the whole loop.
C21_HandlesAssignedOnce ==
  InLoop => \A h \in Handles :
    objects.writes[h] = 1 /\ objects[h] = Selected[h]

\* during the loop every handle holds the selected variant and has been
\* written twice, both times before the loop
HandlesFixed ==
  InLoop => \A h \in Handles :
    objects.writes[h] = 2 /\ objects[h] = Selected[h]

\* C21 amended: every handle is bound before the first timestep to the
\* variant selected from the configuration - written inside its set_*
\* function and once more, with the same object, by the assignment of the
\* function's return value - and is not written during the timestep loop.
C21_HandlesFixedBeforeLoop ==
  /\ []HandlesFixed
  /\ [][NoWriteInLoop]_vars

C21_Witness ==
  /\ pc = "integrator"
  /\ step_number >= 2
  /\ methods.integration = "explicit_euler"
  /\ objects.integration = "ExplicitEulerIntegrator"
  /\ objects.writes["integration"] = 2

\* C22: for dim = 2 the particle-line broad search, fine search and force
\* computation are never invoked and the particle-line candidate and contact
\* collections stay empty; for dim = 3 each particle-line phase runs in the
\* steps, and as often, as the particle-point phase of the same kind.
C22_ParticleLineIn3DOnly ==
  /\ (dim = 2) =>
       /\ ~Has("line_broad") /\ ~Has("line_fine") /\ ~Has("line_force")
       /\ particle_line_contact_candidates = {}
       /\ particle_lines_in_contact = {}
  /\ (dim = 3) =>
       /\ Count("line_broad") = Count("point_broad")
       /\ Count("line_fine") = Count("point_fine")
       /\ Count("line_force") = Count("point_force")

\* a 2-D run with boundary lines near the particles has finished a detection
\* step
C22_Witness ==
  /\ dim = 2
  /\ dense
  /\ StepEnd
  /\ step_number >= 2
  /\ Has("point_broad") /\ Has("point_fine") /\ Has("point_force")
  /\ particle_points_in_contact # {}
  /\ particle_lines_in_contact = {}

\* the positions of solve() between the particle-particle broad search and
\* the particle-particle fine search, and between the particle-wall broad
\* search and the particle-wall fine search
PPCandidatesLive == pc \in {"pw_broad", "localize", "locate", "pp_fine"}
PWCandidatesLive == pc \in {"localize", "locate", "pp_fine", "pp_force", "pw_fine"}

C24_OutputAfterIntegration ==
  /\ Has("write_output_results") =>
       /\ Count("write_output_results") = 1
       /\ obs.is_output_iteration = "true"
       /\ Count("integration") = 1
       /\ Precedes("integration", "write_output_results")
       /\ \A c \in Forces : Precedes(c, "write_output_results")
  /\ StepEnd =>
       /\ obs.is_output_iteration \in {"true", "false"}
       /\ (obs.is_output_iteration = "true") => Has("write_output_results")
  /\ (obs.is_output_iteration = "not called") => pc # "integrate" \/ step_number = 0

C24_Witness ==
  /\ StepEnd
  /\ step_number >= 2
  /\ obs.is_output_iteration = "true"
  /\ Has("write_output_results")
  /\ Has("integration")

\* C25: cell_weight returns 0 for a cell that is not locally owned, whatever
\* its status, and for a locally owned cell with status CELL_COARSEN the
\* product of 10000 and the sum of the particle counts of its children.
C25_WeightOfForeignAndCoarsenedCells ==
  (ret.fn = "cell_weight") =>
    /\ ~call.cell.is_locally_owned =>
         ret.raised = "none" /\ ret.value = Zero
    /\ (call.cell.is_locally_owned /\ call.status = "CELL_COARSEN") =>
         LET sum == SumChildren(call.cell.children, 1)
         IN  /\ ret.raised = "none"
             /\ Product(sum, particle_weight).carry = 0
             /\ ret.value = [lo |-> Product(sum, particle_weight).lo,
                             hi |-> Product(sum, particle_weight).hi]

\* the properties reinitialize_force may write
ForceAndTorque == {"force_x", "force_y", "force_z", "M_x", "M_y", "M_z"}

\* C26: reinitialize_force returns the handler with the same particles, every
\* property other than force and torque as it was, and every force or
\* torque component either as it was or zero.
C26_OnlyForceAndTorqueChange ==
  (ret.fn = "reinitialize_force") =>
    /\ DOMAIN ret.particle_handler = DOMAIN call.particle_handler
    /\ \A i \in DOMAIN call.particle_handler :
         /\ DOMAIN ret.particle_handler[i] = DOMAIN call.particle_handler[i]
         /\ \A k \in DOMAIN call.particle_handler[i] :
              \/ ret.particle_handler[i][k] = call.particle_handler[i][k]
              \/ k \in ForceAndTorque /\ ret.particle_handler[i][k] = 0

\* a moving particle with a force on it has been reset
C26_Witness ==
  /\ ret.fn = "reinitialize_force"
  /\ \E i \in DOMAIN call.particle_handler :
       /\ call.particle_handler[i].v_x = 1
       /\ call.particle_handler[i].force_x = 1
       /\ ret.particle_handler[i].force_x = 0
       /\ ret.particle_handler[i].v_x = 1

\* C27: with R = 0 and C >= 1 the constructor raises no error, and solve()
\* never calls repartition(): the decomposition and the neighbour lists
\* computed before the loop are those of the whole run.
C27_NoRepartitionWhenFrequencyZero ==
  (pc # "call" /\ pc # "return" /\ repartition_frequency = 0
     /\ contact_detection_frequency >= 1) =>
    /\ pc # "runtime_error"
    /\ pc \notin {"clear_lists", "rebuild_lists"}
    /\ ~Has("repartition") /\ ~Has("clear_lists")
    /\ triangulation = 0
    /\ InLoop => cells_neighbor_list = {0} /\ boundary_cells = {0}

C27_Witness ==
  /\ repartition_frequency = 0
  /\ contact_detection_frequency = 2
  /\ pc = "done"
  /\ step_number >= 3
  /\ triangulation = 0

\* C28: in every timestep exactly one of locate_local_particles_in_cells and
\* locate_ghost_particles_in_cells runs, once: the former on detection steps,
\* after localize_contacts and before the particle-particle fine search, the
\* latter on the other steps; whichever runs, runs before the
\* particle-particle force computation.
C28_OneLocatePerStep ==
  /\ Count("locate_local") + Count("locate_ghost") <= 1
  /\ Has("locate_local") =>
       /\ DetectionStep
       /\ Has("localize") /\ Precedes("localize", "locate_local")
       /\ Precedes("locate_local", "pp_fine")
  /\ Has("locate_ghost") => ~DetectionStep /\ ~Has("pp_fine")
  /\ Has("pp_fine") => Has("locate_local")
  /\ Has("pp_force") =>
       /\ Count("locate_local") + Count("locate_ghost") = 1
       /\ Precedes("locate_local", "pp_force")
       /\ Precedes("locate_ghost", "pp_force")
  /\ StepEnd =>
       /\ Count("locate_local") + Count("locate_ghost") = 1
       /\ Has("locate_local") <=> DetectionStep

\* a step that was not a detection step has located the ghost particles
C28_Witness ==
  /\ StepEnd
  /\ step_number >= 3
  /\ ~DetectionStep
  /\ Has("locate_ghost") /\ ~Has("locate_local")
  /\ Has("pp_force")

(* ------------------ GLSNavierStokesSolver: properties ------------------ *)
NewtonLabels == {"newton_while", "newton_for", "newton_accept"}
\* newton_iteration has been entered, and may have returned
NewtonEntered ==
  /\ gls.constructed
  /\ pc \in NewtonLabels \cup {"viscous_end", "return"}
  /\ "newton_iteration" \in {call.fn} \cup {gls.log[i] : i \in DOMAIN gls.log}
LastEvaluated == gls.evaluated[Len(gls.evaluated)]
NewtonBounded ==
  NewtonEntered =>
    /\ gls.outer_iteration <= call.maxIterations
    /\ Len(gls.evaluated) <= 10
    /\ \A i \in DOMAIN gls.evaluated : gls.evaluated[i] = 2^(i - 1)
    /\ pc = "newton_accept" =>
         /\ gls.evaluated # << >>
         /\ gls.evaluation_point =
              Point("line_search", gls.outer_iteration, LastEvaluated)
    /\ (pc # "newton_accept" /\ pc # "newton_for"
        /\ gls.outer_iteration >= 1) =>
         /\ gls.evaluated # << >>
         /\ gls.present_solution =
              Point("line_search", gls.outer_iteration - 1, LastEvaluated)
NewtonCalled == pc = "call" /\ call.fn = "newton_iteration"
NewtonReturned ==
  pc = "return" /\ call.fn = "newton_iteration" /\ ret.fn = "newton_iteration"

\* C29: newton_iteration returns; it makes at most maxIterations outer
\* iterations; the step-length search of an outer iteration evaluates at most
\* 10 values of alpha, which are 1, 1/2, ..., 1/512 in this order; and the
\* point the search evaluated last becomes present_solution, whatever its
\* residual
C29_NewtonIterationTerminates ==
  /\ []NewtonBounded
  /\ NewtonCalled ~> NewtonReturned

\* newton_iteration has returned after maxIterations outer iterations, the
\* last of which tried all 10 values of alpha without lowering the residual
\* and still moved present_solution to the point of alpha = 1/512
C29_Witness ==
  /\ NewtonReturned
  /\ call.maxIterations = MaxIterations
  /\ gls.outer_iteration = MaxIterations
  /\ Len(gls.evaluated) = 10
  /\ gls.current_res = 10
  /\ gls.present_solution =
       Point("line_search", MaxIterations - 1, 512)

SetInitialConditionReturned ==
  pc = "return" /\ call.fn = "set_initial_condition"
    /\ ret.fn = "set_initial_condition"

\* C30: a viscous set_initial_condition without restart that returns leaves
\* the viscosity and the time-stepping method as they were before the call,
\* while newton_iteration runs under the initial-condition viscosity and the
\* steady method; with restart the checkpoint is read whatever the type; and
\* without restart a type that is none of L2projection, nodal and viscous
\* ends in a runtime error
C30_SetInitialConditionFrame ==
  /\ (call.fn = "set_initial_condition"
      /\ pc \in NewtonLabels \cup {"newton_iteration"}) =>
        /\ ~call.restart /\ call.initial_condition_type = "viscous"
        /\ gls.viscosity = call.ic_viscosity
        /\ gls.method = "steady"
  /\ SetInitialConditionReturned =>
       IF call.restart
         THEN /\ ret.raised = "none"
              /\ gls.log = <<"read_checkpoint">>
              /\ gls.viscosity = call.viscosity /\ gls.method = call.method
       ELSE IF call.initial_condition_type = "viscous"
         THEN /\ ret.raised = "none"
              /\ gls.viscosity = call.viscosity
              /\ gls.method = call.method
       ELSE IF call.initial_condition_type \in {"L2projection", "nodal"}
         THEN ret.raised = "none"
       ELSE ret.raised = "std::runtime_error"

\* a viscous call has returned after a Newton iteration, with a viscosity
\* and a method that differ from the ones newton_iteration ran under
C30_Witness ==
  /\ SetInitialConditionReturned
  /\ ~call.restart /\ call.initial_condition_type = "viscous"
  /\ ret.raised = "none"
  /\ gls.outer_iteration >= 1
  /\ call.viscosity # call.ic_viscosity
  /\ call.method # "steady"
  /\ gls.viscosity = call.viscosity /\ gls.method = call.method

====
